---- MODULE Spec2Model ----
(***************************************************************************)
(* Model of the recon-ai reconciliation pipeline:                          *)
(*   - the rule-based diagnosis engine (crew/agents/analyzer_agent.py,     *)
(*     crew/agents/dynamic_label_generator.py)            -> SpecRules     *)
(*   - the reconciliation engine and its REST service                      *)
(*     (crew/agents/recon_agent.py, services/reconciliation_service.py)    *)
(*                                                        -> SpecRecon     *)
(*   - the data loaders (crew/agents/unified_data_loader.py,               *)
(*     crew/agents/hybrid_data_loader.py)                 -> SpecLoad      *)
(*   - the table merge and the API fetch on their own                      *)
(*     (crew/agents/data_loader.py, crew/agents/api_data_loader.py)        *)
(*                                                        -> SpecMerge     *)
(*   - the life of the label taxonomy across runs and engines              *)
(*     (crew/agents/dynamic_label_generator.py)           -> SpecEngine    *)
(*   - generate_labels on the engine's state              -> SpecLabels    *)
(*   - an analysis batch taken row by row, with rules added meanwhile      *)
(*     (crew/agents/analyzer_agent.py)                    -> SpecBatch     *)
(*   - the pipeline from its entry points (pipeline.py, app.py,            *)
(*     crew/crew_builder.py, crew/agents/ml_tool.py)      -> SpecCrew      *)
(*                                                                         *)
(* Conventions.  A table cell is a record [k, v]: k = "num" with the       *)
(* integer v, k = "NaN" (the missing value pandas puts in a numeric        *)
(* column) or k = "None" (Python's None in an object column).  Delta       *)
(* values are fixed-point integers in hundredths (0.05 is 5).  Labels are  *)
(* written with an ASCII hyphen where the source has an en dash.           *)
(***************************************************************************)
EXTENDS Integers, Sequences, FiniteSets, TLC

VARIABLES
    \* ---- rule engine
    business_rules,   \* DynamicLabelGenerator.business_rules: rule_type -> list of rules
    row,              \* the trade (one DataFrame row) handed to the analyzers
    diagnosis,        \* the PV_Diagnosis / Delta_Diagnosis cells of that row
    rulesOp,          \* the last rule-engine operation that ran
    df_in,            \* the diagnosis columns the table had when apply was last called
    label_frequency,  \* DynamicLabelGenerator.label_frequency: label -> count
    historical_patterns,  \* DynamicLabelGenerator.historical_patterns: category -> list
    config_file,      \* the persisted state file, config/diagnosis_labels.json
    runs,             \* analysis runs made so far
    \* ---- reconciliation service
    recon_agent,      \* the service singleton's ReconAgent: pv_tolerance, delta_tolerance
    request,          \* the HTTP request last served: handler, table, tolerance parameters
    response,         \* the body returned for it
    \* ---- data loaders
    apiSource,        \* the remote API: whether api_config was given, the four tables it serves
    fileSource,       \* the data directory: whether data_dir was given, the four sheets it holds
    load,             \* the outcome of the last load_data call
    fetched,          \* the last API response body and what the fetch made of it
    \* ---- pipeline
    ml_agent,         \* the MLDiagnoserAgent: whether it has a model, its own label generator
    labels,           \* the last generate_labels call: its flags and the list it returned
    crew,             \* the last pipeline run: entry point, tolerances, outcome, table
    batch             \* an apply in progress: rows done, columns so far, rules it began with

rulesVars == <<business_rules, row, diagnosis, rulesOp,
               df_in, label_frequency, historical_patterns, config_file, runs>>
reconVars == <<recon_agent, request, response>>
loadVars  == <<apiSource, fileSource, load, fetched>>
crewVars  == <<ml_agent, labels, crew, batch>>
vars      == <<business_rules, row, diagnosis, rulesOp,
               df_in, label_frequency, historical_patterns, config_file, runs,
               recon_agent, request, response,
               apiSource, fileSource, load, fetched,
               ml_agent, labels, crew, batch>>

\* ------------------------------------------------------------------ cells

Num(n)   == [k |-> "num", v |-> n]
NaN      == [k |-> "NaN", v |-> 0]
PyNone   == [k |-> "None", v |-> 0]

\* `x is None`: true of Python's None only, not of the NaN of a numeric column
IsNone(cell) == cell.k = "None"

\* pandas isna(): a cell that carries no value
IsMissing(cell) == cell.k \in {"NaN", "None"}

\* ------------------------------------------------------------------ rule engine

WithinTolerance == "Within tolerance"
NewTradeLabel   == "New trade - no prior valuation"
DroppedLabel    == "Trade dropped from new model"
LiborLabel      == "Legacy LIBOR curve with outdated model - PV likely shifted"
CsaLabel        == "CSA changed post-clearing - funding basis moved"
VolLabel        == "Vol sensitivity likely - delta impact due to model curve shift"

CondPvOldNone   == "PV_old is None"
CondPvNewNone   == "PV_new is None"
CondPvOk        == "PV_Mismatch == False"
CondPvBad       == "PV_Mismatch == True"
CondLibor       == "FundingCurve == 'USD-LIBOR' and ModelVersion != 'v2024.3'"
CondCleared     == "CSA_Type == 'Cleared' and PV_Mismatch == True"
CondClearedCsa  == "CSA_Type == 'Cleared_CSA' and PV_Mismatch"
CondDeltaOk     == "Delta_Mismatch == False"
CondDeltaBad    == "Delta_Mismatch == True"
CondOption      == "ProductType == 'Option' and Delta_Mismatch == True"
CondSwap        == "ProductType == 'Swap' and PV_Mismatch == True"
CondClearedSwap == "CSA_Type == 'Cleared' and PV_Mismatch == True and ProductType == 'Swap'"
CondRecheck     == "PV_Diagnosis == 'Within tolerance'"

Rule(c, l, p, cat) == [condition |-> c, label |-> l, priority |-> p, category |-> cat]

\* DynamicLabelGenerator._load_business_rules: the seed rule sets
SeedRules ==
    [pv_rules |-> << Rule(CondPvOldNone, NewTradeLabel, 1, "trade_lifecycle"),
                     Rule(CondPvNewNone, DroppedLabel, 1, "trade_lifecycle"),
                     Rule(CondLibor, LiborLabel, 2, "curve_model"),
                     Rule(CondCleared, CsaLabel, 2, "funding_csa"),
                     Rule(CondPvOk, WithinTolerance, 0, "tolerance") >>,
     delta_rules |-> << Rule(CondOption, VolLabel, 2, "volatility"),
                        Rule(CondDeltaOk, WithinTolerance, 0, "tolerance") >>]

\* `pattern in condition` (substring test) over the condition texts of the model
Contains(condition, pattern) ==
    \/ condition = pattern
    \/ <<condition, pattern>> \in { <<CondClearedSwap, CondCleared>>,
                                    <<CondClearedSwap, CondPvBad>>,
                                    <<CondCleared, CondPvBad>>,
                                    <<CondSwap, CondPvBad>> }

\* a diagnosis column the table does not have (yet)
NoColumn == "Unevaluated"

HasColumn(r, column) == column \in DOMAIN r /\ r[column] # NoColumn

KnownConditions ==
    {CondPvOldNone, CondPvNewNone, CondPvOk, CondPvBad, CondLibor, CondCleared, CondClearedCsa,
     CondDeltaOk, CondDeltaBad, CondOption, CondSwap, CondClearedSwap, CondRecheck}

\* eval(condition, ...) raises: a name that is no column of the row (NameError), a text
\* that is no expression (SyntaxError)
EvalRaises(r, condition) ==
    \/ condition \notin KnownConditions
    \/ condition = CondRecheck /\ ~HasColumn(r, "PV_Diagnosis")

\* The value Python's eval gives the condition text over the row's columns
\* (_safe_eval_condition: eval(condition, {"__builtins__": {}}, safe_dict), bool(result)).
SafeEvalCondition(r, condition) ==
    CASE EvalRaises(r, condition)    -> FALSE   \* except Exception: return False
      [] condition = CondRecheck     -> r.PV_Diagnosis = WithinTolerance
      [] condition = CondPvOldNone   -> IsNone(r.PV_old)
      [] condition = CondPvNewNone   -> IsNone(r.PV_new)
      [] condition = CondPvOk        -> r.PV_Mismatch = FALSE
      [] condition = CondPvBad       -> r.PV_Mismatch = TRUE
      [] condition = CondLibor       -> r.FundingCurve = "USD-LIBOR" /\ r.ModelVersion # "v2024.3"
      [] condition = CondCleared     -> r.CSA_Type = "Cleared" /\ r.PV_Mismatch = TRUE
      [] condition = CondClearedCsa  -> r.CSA_Type = "Cleared_CSA" /\ r.PV_Mismatch
      [] condition = CondDeltaOk     -> r.Delta_Mismatch = FALSE
      [] condition = CondDeltaBad    -> r.Delta_Mismatch = TRUE
      [] condition = CondOption      -> r.ProductType = "Option" /\ r.Delta_Mismatch = TRUE
      [] condition = CondSwap        -> r.ProductType = "Swap" /\ r.PV_Mismatch = TRUE
      [] condition = CondClearedSwap -> r.CSA_Type = "Cleared" /\ r.PV_Mismatch = TRUE
                                        /\ r.ProductType = "Swap"
      [] OTHER -> FALSE

\* PVAnalysisAgent._evaluate_condition
PVEvaluateCondition(r, condition) ==
    IF condition = CondPvOldNone THEN IsNone(r.PV_old)
    ELSE IF condition = CondPvNewNone THEN IsNone(r.PV_new)
    ELSE IF condition = CondPvOk THEN r.PV_Mismatch = FALSE
    ELSE IF condition = CondPvBad THEN r.PV_Mismatch = TRUE
    ELSE IF Contains(condition, CondLibor)
         THEN r.FundingCurve = "USD-LIBOR" /\ r.ModelVersion # "v2024.3"
    ELSE IF Contains(condition, CondCleared)
         THEN r.CSA_Type = "Cleared" /\ r.PV_Mismatch = TRUE
    ELSE IF Contains(condition, CondClearedCsa)
         THEN r.CSA_Type = "Cleared_CSA" /\ r.PV_Mismatch = TRUE
    ELSE SafeEvalCondition(r, condition)

\* DeltaAnalysisAgent._evaluate_condition
DeltaEvaluateCondition(r, condition) ==
    IF condition = CondDeltaOk THEN r.Delta_Mismatch = FALSE
    ELSE IF condition = CondDeltaBad THEN r.Delta_Mismatch = TRUE
    ELSE IF Contains(condition, CondOption)
         THEN r.ProductType = "Option" /\ r.Delta_Mismatch = TRUE
    ELSE SafeEvalCondition(r, condition)

EvaluateCondition(agent, r, condition) ==
    IF agent = "pv_rules" THEN PVEvaluateCondition(r, condition)
                          ELSE DeltaEvaluateCondition(r, condition)

\* sorted(rules, key=priority, reverse=True): Python's sort is stable, also with
\* reverse=True, so rules of equal priority keep their list order.
RECURSIVE InsertByPriority(_, _)
InsertByPriority(sorted, rule) ==
    IF sorted = <<>> THEN <<rule>>
    ELSE IF Head(sorted).priority >= rule.priority
         THEN <<Head(sorted)>> \o InsertByPriority(Tail(sorted), rule)
         ELSE <<rule>> \o sorted

\* A sort that puts a rule before the rules of equal priority already placed.
RECURSIVE InsertBeforeEqual(_, _)
InsertBeforeEqual(sorted, rule) ==
    IF sorted = <<>> THEN <<rule>>
    ELSE IF Head(sorted).priority > rule.priority
         THEN <<Head(sorted)>> \o InsertBeforeEqual(Tail(sorted), rule)
         ELSE <<rule>> \o sorted

RECURSIVE SortedUnstable(_)
SortedUnstable(rules) ==
    IF rules = <<>> THEN <<>>
    ELSE InsertBeforeEqual(SortedUnstable(SubSeq(rules, 1, Len(rules) - 1)),
                           rules[Len(rules)])

RECURSIVE SortedByPriority(_)
SortedByPriority(rules) ==
    IF rules = <<>> THEN <<>>
    ELSE InsertByPriority(SortedByPriority(SubSeq(rules, 1, Len(rules) - 1)),
                          rules[Len(rules)])

\* a loop that lets the error of a condition's evaluation end the analysis without a label
RECURSIVE FirstMatchAborting(_, _, _)
FirstMatchAborting(agent, r, sorted) ==
    IF sorted = <<>> THEN WithinTolerance
    ELSE IF EvalRaises(r, Head(sorted).condition) THEN NoColumn
    ELSE IF EvaluateCondition(agent, r, Head(sorted).condition)
         THEN Head(sorted).label
         ELSE FirstMatchAborting(agent, r, Tail(sorted))

\* the loop of analyze(): the first rule of the sorted list whose condition evaluates true
RECURSIVE FirstMatch(_, _, _)
FirstMatch(agent, r, sorted) ==
    IF sorted = <<>> THEN WithinTolerance
    ELSE IF EvaluateCondition(agent, r, Head(sorted).condition)
         THEN Head(sorted).label
         ELSE FirstMatch(agent, r, Tail(sorted))

\* an agent that keeps the rule list it was built with
AnalyzeSeedOnly(agent, rules, r) == FirstMatch(agent, r, SortedByPriority(SeedRules[agent]))

\* PVAnalysisAgent.analyze / DeltaAnalysisAgent.analyze
Analyze(agent, rules, r) == FirstMatch(agent, r, SortedByPriority(rules))

\* ---- the table handed to apply: the trade under study and a reference trade

SwapLabel == "Swap repricing"
Labels == {WithinTolerance, NewTradeLabel, DroppedLabel, LiborLabel, CsaLabel, VolLabel,
           SwapLabel, ""}

\* a priced, matching, bilateral swap on current curves
ReferenceTrade ==
    [PV_old |-> Num(0), PV_new |-> Num(0), PV_Mismatch |-> FALSE, Delta_Mismatch |-> FALSE,
     FundingCurve |-> "SOFR", ModelVersion |-> "v2024.3", CSA_Type |-> "Bilateral",
     ProductType |-> "Swap"]

\* the row as df.apply(..., axis=1) hands it to analyze: every column of the table,
\* the diagnosis columns of an earlier apply included
View(r, pv_diagnosis, delta_diagnosis) ==
    [PV_old |-> r.PV_old, PV_new |-> r.PV_new, PV_Mismatch |-> r.PV_Mismatch,
     Delta_Mismatch |-> r.Delta_Mismatch, FundingCurve |-> r.FundingCurve,
     ModelVersion |-> r.ModelVersion, CSA_Type |-> r.CSA_Type, ProductType |-> r.ProductType,
     PV_Diagnosis |-> pv_diagnosis, Delta_Diagnosis |-> delta_diagnosis]

\* ---- DynamicLabelGenerator: patterns, frequencies, persistence

Range(seq) == {seq[i] : i \in 1..Len(seq)}

When(cond, pattern) == IF cond THEN <<pattern>> ELSE <<>>

Distinct(rows, column) == Cardinality({rows[i][column] : i \in 1..Len(rows)})

\* the Any_Mismatch column as the reconciliation step computes it
AnyOf(r) == r.PV_Mismatch \/ r.Delta_Mismatch

\* groupby('ProductType')['Any_Mismatch'].mean() > 0.5
HighMismatchRate(rows, product) ==
    LET group == {i \in 1..Len(rows) : rows[i].ProductType = product}
        hits  == {i \in group : AnyOf(rows[i])}
    IN  group # {} /\ 2 * Cardinality(hits) > Cardinality(group)

\* DynamicLabelGenerator.discover_patterns.  The table has no TradeDate column, and with
\* at most one Delta-mismatching row the std of Delta_Diff is NaN, so neither the
\* temporal nor the delta-volatility pattern is found.
DiscoverPatterns(rows) ==
    [pv_patterns |->
        When(Distinct(rows, "FundingCurve") > 1,
             "Multiple funding curves detected - curve-specific issues")
        \o When(Distinct(rows, "ModelVersion") > 1,
                "Model version differences detected - version-specific issues")
        \o When(Distinct(rows, "CSA_Type") > 1,
                "CSA type differences detected - clearing vs bilateral issues"),
     delta_patterns |->
        When(Distinct(rows, "ProductType") > 1, "Product-specific delta issues detected"),
     temporal_patterns |-> <<>>,
     product_patterns |->
        When(HighMismatchRate(rows, "Option"), "High mismatch rate for Option products")
        \o When(HighMismatchRate(rows, "Swap"), "High mismatch rate for Swap products")]

NoPatterns ==
    [pv_patterns |-> <<>>, delta_patterns |-> <<>>, temporal_patterns |-> <<>>,
     product_patterns |-> <<>>]

NoFrequency == [l \in Labels |-> 0]

\* value_counts() of a diagnosis column added to the counters
AddCounts(frequency, column) ==
    [l \in Labels |-> frequency[l] + Cardinality({i \in 1..Len(column) : column[i] = l})]

\* DynamicLabelGenerator.update_from_analysis, up to the save
UpdateFromAnalysis(patterns, frequency, rows, pv_column, delta_column) ==
    LET found == DiscoverPatterns(rows)
    IN  [historical_patterns |-> [c \in DOMAIN patterns |-> patterns[c] \o found[c]],
         label_frequency |-> AddCounts(AddCounts(frequency, pv_column), delta_column)]

\* DynamicLabelGenerator._save_patterns: the file is rewritten whole
SavePatterns(patterns, frequency, rules) ==
    [exists |-> TRUE, historical_patterns |-> patterns, label_frequency |-> frequency,
     business_rules |-> rules]

NoFile ==
    [exists |-> FALSE, historical_patterns |-> NoPatterns, label_frequency |-> NoFrequency,
     business_rules |-> SeedRules]

\* ---- inputs of the rule engine

MaxAdded == 1     \* rules added at runtime

Rows ==
    [PV_old : {Num(0), NaN, PyNone},
     PV_new : {Num(0), PyNone},
     PV_Mismatch : BOOLEAN,
     Delta_Mismatch : BOOLEAN,
     FundingCurve : {"USD-LIBOR", "SOFR"},
     ModelVersion : {"v2024.3", "v2024.1"},
     CSA_Type : {"Cleared", "Bilateral"},
     ProductType : {"Option", "Swap"}]

RuleTypes     == {"pv_rules", "delta_rules"}

\* the rules add_business_rule is called with: <<condition, label, priority>>
AddRules ==
    { <<CondSwap, SwapLabel, 0>>, <<CondSwap, SwapLabel, 2>>, <<CondSwap, SwapLabel, 3>>,
      <<CondRecheck, SwapLabel, 3>> }

\* well-formed rules (one of them a built-in condition with a further conjunct), and
\* rule definitions that lack a label or a condition
AnyAddRules ==
    { <<CondSwap, SwapLabel, 3>>, <<CondClearedSwap, SwapLabel, 3>>,
      <<CondSwap, "", 1>>, <<"", SwapLabel, 1>> }

MaxRuns == 2      \* analysis runs

Unevaluated == [pv |-> NoColumn, delta |-> NoColumn, ref_pv |-> NoColumn, ref_delta |-> NoColumn]

\* a few trades: plain, mismatching cleared swap, mismatching cleared option,
\* mismatching option, new trade
EngineRows ==
    { ReferenceTrade,
      [ReferenceTrade EXCEPT !.PV_Mismatch = TRUE, !.CSA_Type = "Cleared"],
      [ReferenceTrade EXCEPT !.PV_Mismatch = TRUE, !.CSA_Type = "Cleared",
                             !.ProductType = "Option"],
      [ReferenceTrade EXCEPT !.Delta_Mismatch = TRUE, !.ProductType = "Option"],
      [ReferenceTrade EXCEPT !.PV_old = PyNone, !.FundingCurve = "USD-LIBOR"] }

\* DynamicLabelGenerator.__init__: the seed rules, no patterns, no counts; the state
\* file is not read
NewLabelGenerator ==
    /\ business_rules = SeedRules
    /\ label_frequency = NoFrequency
    /\ historical_patterns = NoPatterns

RulesIdle ==
    /\ NewLabelGenerator
    /\ row = ReferenceTrade
    /\ diagnosis = Unevaluated
    /\ df_in = Unevaluated
    /\ config_file = NoFile
    /\ runs = 0
    /\ rulesOp = "none"

RulesInit ==
    /\ NewLabelGenerator
    /\ row \in Rows
    /\ diagnosis = Unevaluated
    /\ df_in = Unevaluated
    /\ config_file = NoFile
    /\ runs = 0
    /\ rulesOp = "init"

EngineInit ==
    /\ NewLabelGenerator
    /\ row \in EngineRows
    /\ diagnosis = Unevaluated
    /\ df_in = Unevaluated
    /\ config_file = NoFile
    /\ runs = 0
    /\ rulesOp = "init"

\* MLDiagnoserAgent.__init__: its own DynamicLabelGenerator on the same state file; the
\* model is loaded when a model file exists
NewMLDiagnoserAgent(model) ==
    [model |-> model, label_frequency |-> NoFrequency, historical_patterns |-> NoPatterns]

NoLabels == [include_discovered |-> FALSE, include_historical |-> FALSE, result |-> <<>>]

MLIdle == ml_agent = NewMLDiagnoserAgent("none") /\ labels = NoLabels

MLInit ==
    /\ ml_agent \in {NewMLDiagnoserAgent(m) : m \in {"none", "trained"}}
    /\ labels = NoLabels

\* AnalyzerAgent.add_business_rule: the rule is appended as given; nothing is saved
AddBusinessRule(rule_type, condition, label, priority) ==
    /\ Len(business_rules.pv_rules) + Len(business_rules.delta_rules)
         < Len(SeedRules.pv_rules) + Len(SeedRules.delta_rules) + MaxAdded
    /\ business_rules' = [business_rules EXCEPT
           ![rule_type] = Append(@, Rule(condition, label, priority, "custom"))]
    /\ rulesOp' = "add_business_rule"
    /\ UNCHANGED <<row, diagnosis, df_in, label_frequency, historical_patterns, config_file,
                   runs, reconVars, loadVars, crewVars>>

\* AnalyzerAgent.apply on the table <<row, ReferenceTrade>>: the PV_Diagnosis column,
\* then the Delta_Diagnosis column, then _update_label_generator with its save
Apply ==
    /\ runs < MaxRuns
    /\ LET pv     == Analyze("pv_rules", business_rules.pv_rules,
                             View(row, diagnosis.pv, diagnosis.delta))
           ref_pv == Analyze("pv_rules", business_rules.pv_rules,
                             View(ReferenceTrade, diagnosis.ref_pv, diagnosis.ref_delta))
       IN  diagnosis' =
               [pv |-> pv, ref_pv |-> ref_pv,
                delta |-> Analyze("delta_rules", business_rules.delta_rules,
                                  View(row, pv, diagnosis.delta)),
                ref_delta |-> Analyze("delta_rules", business_rules.delta_rules,
                                      View(ReferenceTrade, ref_pv, diagnosis.ref_delta))]
    /\ LET updated == UpdateFromAnalysis(historical_patterns, label_frequency,
                                         <<row, ReferenceTrade>>,
                                         <<diagnosis'.pv, diagnosis'.ref_pv>>,
                                         <<diagnosis'.delta, diagnosis'.ref_delta>>)
       IN  /\ historical_patterns' = updated.historical_patterns
           /\ label_frequency' = updated.label_frequency
    /\ config_file' = SavePatterns(historical_patterns', label_frequency', business_rules)
    /\ df_in' = diagnosis
    /\ runs' = runs + 1
    /\ rulesOp' = "apply"
    /\ UNCHANGED <<business_rules, row, reconVars, loadVars, crewVars>>

\* a new run in a new process: AnalyzerAgent() builds a new DynamicLabelGenerator, the
\* table is loaded again; the state file stays as the earlier run left it
NewEngine ==
    /\ config_file.exists
    /\ business_rules' = SeedRules
    /\ label_frequency' = NoFrequency
    /\ historical_patterns' = NoPatterns
    /\ diagnosis' = Unevaluated
    /\ df_in' = Unevaluated
    /\ rulesOp' = "new_engine"
    /\ ml_agent' = NewMLDiagnoserAgent(ml_agent.model)
    /\ UNCHANGED <<row, config_file, runs, labels, crew, batch, reconVars, loadVars>>

\* AnalyzerAgent.apply as the interpreter runs it, one call of analyze at a time: the
\* PV pass over the rows, the Delta pass over the rows with the PV column in place,
\* then _update_label_generator.  Each analyze call reads the rule list as it is at
\* that moment; another thread's add_business_rule can run between two calls.
ApplyStep ==
    /\ runs < MaxRuns
    /\ CASE batch.step = 0 ->
             /\ batch' = [step |-> 1, rules |-> business_rules,
                          column |-> [Unevaluated EXCEPT !.pv =
                              Analyze("pv_rules", business_rules.pv_rules,
                                      View(row, diagnosis.pv, diagnosis.delta))]]
             /\ UNCHANGED <<diagnosis, df_in, label_frequency, historical_patterns,
                            config_file, runs, rulesOp>>
         [] batch.step = 1 ->
             /\ batch' = [batch EXCEPT !.step = 2, !.column.ref_pv =
                              Analyze("pv_rules", business_rules.pv_rules,
                                      View(ReferenceTrade, diagnosis.ref_pv,
                                           diagnosis.ref_delta))]
             /\ UNCHANGED <<diagnosis, df_in, label_frequency, historical_patterns,
                            config_file, runs, rulesOp>>
         [] batch.step = 2 ->
             /\ batch' = [batch EXCEPT !.step = 3, !.column.delta =
                              Analyze("delta_rules", business_rules.delta_rules,
                                      View(row, batch.column.pv, diagnosis.delta))]
             /\ UNCHANGED <<diagnosis, df_in, label_frequency, historical_patterns,
                            config_file, runs, rulesOp>>
         [] batch.step = 3 ->
             /\ batch' = [batch EXCEPT !.step = 4, !.column.ref_delta =
                              Analyze("delta_rules", business_rules.delta_rules,
                                      View(ReferenceTrade, batch.column.ref_pv,
                                           diagnosis.ref_delta))]
             /\ UNCHANGED <<diagnosis, df_in, label_frequency, historical_patterns,
                            config_file, runs, rulesOp>>
         [] OTHER ->
             /\ batch' = [batch EXCEPT !.step = 0]
             /\ diagnosis' = batch.column
             /\ df_in' = diagnosis
             /\ label_frequency' =
                    AddCounts(AddCounts(label_frequency,
                                        <<diagnosis'.pv, diagnosis'.ref_pv>>),
                              <<diagnosis'.delta, diagnosis'.ref_delta>>)
             /\ historical_patterns' =
                    UpdateFromAnalysis(historical_patterns, label_frequency,
                                       <<row, ReferenceTrade>>, <<>>, <<>>).historical_patterns
             /\ config_file' = SavePatterns(historical_patterns', label_frequency',
                                            business_rules)
             /\ runs' = runs + 1
             /\ rulesOp' = "apply"
    /\ UNCHANGED <<business_rules, row, ml_agent, labels, crew, reconVars, loadVars>>

\* AnalyzerAgent.apply on a table that has the PV_Mismatch, Delta_Mismatch and ProductType
\* columns but no Any_Mismatch column, as the table of the module's own example has:
\* both diagnosis columns are written, then discover_patterns raises KeyError in
\* _analyze_product_patterns at the start of update_from_analysis, before the patterns
\* and the counters are touched and before the save; _update_label_generator logs a
\* warning and apply returns the diagnosed table
ApplyWithoutAnyMismatch ==
    /\ runs < MaxRuns
    /\ batch.step = 0
    /\ LET pv     == Analyze("pv_rules", business_rules.pv_rules,
                             View(row, diagnosis.pv, diagnosis.delta))
           ref_pv == Analyze("pv_rules", business_rules.pv_rules,
                             View(ReferenceTrade, diagnosis.ref_pv, diagnosis.ref_delta))
       IN  diagnosis' =
               [pv |-> pv, ref_pv |-> ref_pv,
                delta |-> Analyze("delta_rules", business_rules.delta_rules,
                                  View(row, pv, diagnosis.delta)),
                ref_delta |-> Analyze("delta_rules", business_rules.delta_rules,
                                      View(ReferenceTrade, ref_pv, diagnosis.ref_delta))]
    /\ df_in' = diagnosis
    /\ runs' = runs + 1
    /\ rulesOp' = "apply"
    /\ batch' = [batch EXCEPT !.rules = business_rules]
    /\ UNCHANGED <<business_rules, row, label_frequency, historical_patterns, config_file,
                   ml_agent, labels, crew, reconVars, loadVars>>

\* ---- the ML agent's label generator

\* step 4 of ReconciliationCrew.run, which follows the apply of the same run: when the
\* agent has no model, MLDiagnoserAgent.train fits one on the diagnosed table and then
\* updates its own label generator, which saves the state file
Train ==
    /\ rulesOp = "apply"
    /\ ml_agent.model = "none"
    /\ LET updated == UpdateFromAnalysis(ml_agent.historical_patterns,
                                         ml_agent.label_frequency,
                                         <<row, ReferenceTrade>>,
                                         <<diagnosis.pv, diagnosis.ref_pv>>,
                                         <<diagnosis.delta, diagnosis.ref_delta>>)
       IN  ml_agent' = [model |-> "trained",
                        label_frequency |-> updated.label_frequency,
                        historical_patterns |-> updated.historical_patterns]
    /\ config_file' = SavePatterns(ml_agent'.historical_patterns, ml_agent'.label_frequency,
                                   SeedRules)
    /\ rulesOp' = "train"
    /\ UNCHANGED <<business_rules, row, diagnosis, df_in, label_frequency,
                   historical_patterns, runs, labels, crew, batch, reconVars, loadVars>>

\* ---- DynamicLabelGenerator.generate_labels

\* DynamicLabelGenerator._load_domain_knowledge: the labels of the seven categories
DomainKnowledge ==
    { "New trade - no prior valuation",
      "Trade dropped from new model",
      "Trade amended with new terms",
      "Trade matured or expired",
      "Legacy LIBOR curve with outdated model - PV likely shifted",
      "SOFR transition impact - curve basis changed",
      "Model version update - methodology changed",
      "Curve interpolation changed - end points affected",
      "CSA changed post-clearing - funding basis moved",
      "Collateral threshold changed - funding cost shifted",
      "New clearing house - margin requirements different",
      "Bilateral to cleared transition - funding curve changed",
      "Vol sensitivity likely - delta impact due to model curve shift",
      "Vol surface updated - smile/skew changed",
      "Market stress - vol regime shifted",
      "Option-specific model change - vol dynamics affected",
      "Within tolerance",
      "Minor deviation - no action required",
      "Acceptable range - monitor for trends",
      "Missing data - incomplete valuation",
      "Data corruption - invalid inputs",
      "Timing mismatch - stale data",
      "System error - calculation failed",
      "Market volatility - broad repricing",
      "Credit event - counterparty risk changed",
      "Regulatory change - capital requirements updated",
      "Liquidity crisis - funding costs spiked" }

\* the order sorted() gives strings: by code point
LabelOrder ==
    << "",
      "Acceptable range - monitor for trends",
      "Bilateral to cleared transition - funding curve changed",
      "CSA changed post-clearing - funding basis moved",
      "CSA type differences detected - clearing vs bilateral issues",
      "Collateral threshold changed - funding cost shifted",
      "Credit event - counterparty risk changed",
      "Curve interpolation changed - end points affected",
      "Data corruption - invalid inputs",
      "High delta volatility detected - vol surface issues",
      "High mismatch rate for Option products",
      "High mismatch rate for Swap products",
      "Legacy LIBOR curve with outdated model - PV likely shifted",
      "Liquidity crisis - funding costs spiked",
      "Market stress - vol regime shifted",
      "Market volatility - broad repricing",
      "Minor deviation - no action required",
      "Missing data - incomplete valuation",
      "Model version differences detected - version-specific issues",
      "Model version update - methodology changed",
      "Multiple funding curves detected - curve-specific issues",
      "New clearing house - margin requirements different",
      "New trade - no prior valuation",
      "Option-specific model change - vol dynamics affected",
      "Product-specific delta issues detected",
      "Regulatory change - capital requirements updated",
      "SOFR transition impact - curve basis changed",
      "Swap repricing",
      "System error - calculation failed",
      "Temporal clustering of mismatches detected",
      "Timing mismatch - stale data",
      "Trade amended with new terms",
      "Trade dropped from new model",
      "Trade matured or expired",
      "Vol sensitivity likely - delta impact due to model curve shift",
      "Vol surface updated - smile/skew changed",
      "Within tolerance" >>

\* sorted(list(labels)): the members of the set, each once, in the order of the strings
SortedList(set) ==
    LET Member(l) == l \in set
    IN  SelectSeq(LabelOrder, Member)

\* the pattern lists of every category, as one set
PatternsOf(patterns) == UNION {Range(patterns[c]) : c \in DOMAIN patterns}

\* discover_patterns on a table that may not have been diagnosed yet: the PV and Delta
\* patterns are looked for only when the diagnosis columns exist
DiscoverPatternsIn(rows, diagnosed) ==
    IF diagnosed THEN DiscoverPatterns(rows)
    ELSE [DiscoverPatterns(rows) EXCEPT !.pv_patterns = <<>>, !.delta_patterns = <<>>]

GenerateLabelsAllHistorical(rules, patterns, frequency, rows, diagnosed, include_discovered, include_historical) ==
    SortedList(UNION {{rules[t][i].label : i \in 1..Len(rules[t])} : t \in DOMAIN rules}
               \cup DomainKnowledge
               \cup (IF include_discovered
                     THEN PatternsOf(DiscoverPatternsIn(rows, diagnosed)) ELSE {})
               \cup PatternsOf(patterns)
               \cup {l \in DOMAIN frequency : frequency[l] > 5})

GenerateLabels(rules, patterns, frequency, rows, diagnosed, include_discovered, include_historical) ==
    LET rule_labels == UNION {{rules[t][i].label : i \in 1..Len(rules[t])} : t \in DOMAIN rules}
        discovered  == IF include_discovered
                       THEN PatternsOf(DiscoverPatternsIn(rows, diagnosed)) ELSE {}
        historical  == IF include_historical THEN PatternsOf(patterns) ELSE {}
        frequent    == {l \in DOMAIN frequency : frequency[l] > 5}
    IN  SortedList(rule_labels \cup DomainKnowledge \cup discovered \cup historical
                   \cup frequent)

\* generate_labels called on the analyzer's generator with the table as it is
GenerateLabelsCall(include_discovered, include_historical) ==
    /\ labels' = [include_discovered |-> include_discovered,
                  include_historical |-> include_historical,
                  result |-> GenerateLabels(business_rules, historical_patterns,
                                            label_frequency, <<row, ReferenceTrade>>,
                                            diagnosis # Unevaluated,
                                            include_discovered, include_historical)]
    /\ UNCHANGED <<rulesVars, ml_agent, crew, batch, reconVars, loadVars>>

\* ------------------------------------------------------------------ reconciliation

DefaultPvTolerance    == 1000   \* ReconAgent.__init__ pv_tolerance=1000
DefaultDeltaTolerance == 5      \* ReconAgent.__init__ delta_tolerance=0.05, in hundredths

\* Series - Series: a missing operand gives NaN, never a number
SubtractZeroFilled(new, old) ==
    Num((IF IsMissing(new) THEN 0 ELSE new.v) - (IF IsMissing(old) THEN 0 ELSE old.v))

Subtract(new, old) ==
    IF IsMissing(new) \/ IsMissing(old) THEN NaN ELSE Num(new.v - old.v)

\* Series.abs()
Abs(cell) == IF IsMissing(cell) THEN NaN ELSE Num(IF cell.v < 0 THEN -cell.v ELSE cell.v)

ExceedsOrEquals(cell, tolerance) == IF IsMissing(cell) THEN FALSE ELSE cell.v >= tolerance

\* Series > scalar: a comparison with NaN is False, so the column is boolean
Exceeds(cell, tolerance) == IF IsMissing(cell) THEN FALSE ELSE cell.v > tolerance

\* Series.fillna(value) on a mismatch column
FillNa(x, value) == IF x \in BOOLEAN THEN x ELSE value

AnyMismatchPvOnly(pv_mismatch, delta_mismatch) == FillNa(pv_mismatch, FALSE)

\* df["PV_Mismatch"].fillna(False) | df["Delta_Mismatch"].fillna(False)
AnyMismatch(pv_mismatch, delta_mismatch) ==
    FillNa(pv_mismatch, FALSE) \/ FillNa(delta_mismatch, FALSE)

\* ReconAgent.add_diff_flags on one row; the input columns are kept as they are
AddDiffFlags(agent, r) ==
    LET pv_diff    == Subtract(r.PV_new, r.PV_old)
        delta_diff == Subtract(r.Delta_new, r.Delta_old)
        pv_mm      == Exceeds(Abs(pv_diff), agent.pv_tolerance)
        delta_mm   == Exceeds(Abs(delta_diff), agent.delta_tolerance)
    IN  [PV_old |-> r.PV_old, PV_new |-> r.PV_new,
         Delta_old |-> r.Delta_old, Delta_new |-> r.Delta_new,
         PV_Diff |-> pv_diff, Delta_Diff |-> delta_diff,
         PV_Mismatch |-> pv_mm, Delta_Mismatch |-> delta_mm,
         Any_Mismatch |-> AnyMismatch(pv_mm, delta_mm)]

\* ---- inputs of the reconciliation service

MaxVal == 1     \* PV and Delta values of the generated rows: 0..MaxVal
MaxTol == 1     \* tolerances of the generated requests: 0..MaxTol

Cells == {NaN} \cup {Num(n) : n \in 0..MaxVal}

PricedRow(po, pn, do, dn) == [PV_old |-> po, PV_new |-> pn, Delta_old |-> do, Delta_new |-> dn]

\* the two worked examples: 104500 -> 105200 and -98000 -> -97500
ScenarioRows == { PricedRow(Num(104500), Num(105200), Num(50), Num(52)),
                  PricedRow(Num(-98000), Num(-97500), Num(-80), Num(-82)) }

ReconRows == [PV_old : Cells, PV_new : Cells, Delta_old : Cells, Delta_new : Cells]
             \cup ScenarioRows

Tolerances == [pv_tolerance : 0..MaxTol, delta_tolerance : 0..MaxTol]
              \cup { [pv_tolerance |-> DefaultPvTolerance, delta_tolerance |-> DefaultDeltaTolerance],
                     [pv_tolerance |-> 400, delta_tolerance |-> DefaultDeltaTolerance] }

NoTable == <<>>

\* reconciliation_service = ReconciliationService(): its ReconAgent() has the defaults
NewReconAgent == [pv_tolerance |-> DefaultPvTolerance, delta_tolerance |-> DefaultDeltaTolerance]

Req(handler, data, tol) ==
    [handler |-> handler, data |-> data,
     pv_tolerance |-> tol.pv_tolerance, delta_tolerance |-> tol.delta_tolerance]

ReconIdle ==
    /\ recon_agent = NewReconAgent
    /\ request = Req("none", CHOOSE r \in ReconRows : TRUE, NewReconAgent)
    /\ response = NoTable

ReconInit ==
    /\ recon_agent = NewReconAgent
    /\ \E r \in ReconRows : request = Req("none", r, NewReconAgent)
    /\ response = NoTable

\* ReconciliationService.detect_mismatches
ServiceDetectMismatches(agent, data, tol) ==
    LET updated == [agent EXCEPT !.pv_tolerance = tol.pv_tolerance,
                                 !.delta_tolerance = tol.delta_tolerance]
    IN  [agent |-> updated, df_with_flags |-> AddDiffFlags(updated, data)]

\* POST /detect-mismatches: an async handler with no await, so it runs to its end
\* before the event loop serves another request
DetectMismatches(tol) ==
    LET out == ServiceDetectMismatches(recon_agent, request.data, tol)
    IN  /\ request' = Req("detect_mismatches", request.data, tol)
        /\ recon_agent' = out.agent
        /\ response' = <<out.df_with_flags>>
        /\ UNCHANGED <<rulesVars, loadVars, crewVars>>

\* POST /config/tolerances
UpdateToleranceConfig(tol) ==
    /\ request' = Req("update_tolerance_config", request.data, tol)
    /\ recon_agent' = [recon_agent EXCEPT !.pv_tolerance = tol.pv_tolerance,
                                          !.delta_tolerance = tol.delta_tolerance]
    /\ response' = NoTable
    /\ UNCHANGED <<rulesVars, loadVars, crewVars>>

\* GET /config/tolerances
GetToleranceConfig ==
    /\ request' = Req("get_tolerance_config", request.data, NewReconAgent)
    /\ response' = <<recon_agent>>
    /\ UNCHANGED <<recon_agent, rulesVars, loadVars, crewVars>>

\* ------------------------------------------------------------------ data loaders

\* A raw table is a sequence of rows [TradeID, val]; val names the source the row's
\* values come from ("api" or "file").  A merged row has one cell per joined table,
\* holding that source name, or "NaN" where the join found no row.
TradeIDs == <<"A", "B", "C">>
Endpoints == <<"old_pricing", "new_pricing", "trade_metadata", "funding_reference">>

RawRow(id, src) == [TradeID |-> id, val |-> src]
MergedRow(id, old, new) ==
    [TradeID |-> id, PV_old |-> old, PV_new |-> new, meta |-> "NaN", funding |-> "NaN"]

\* a DataFrame or None
Df(rows) == [ok |-> TRUE, rows |-> rows]
NoneDf   == [ok |-> FALSE, rows |-> <<>>]

RowsOf(table, id) == SelectSeq(table, LAMBDA r : r.TradeID = id)
IdsOf(table) == {table[i].TradeID : i \in 1..Len(table)}

\* old.merge(new, on="TradeID", how="outer", suffixes=("_old", "_new")): one row per
\* pair of rows with the same key, keys in sorted order, NaN on the side without a row
RECURSIVE OuterJoinFrom(_, _, _)
OuterJoinFrom(i, old, new) ==
    IF i > Len(TradeIDs) THEN <<>>
    ELSE LET id == TradeIDs[i]
             ls == RowsOf(old, id)
             rs == RowsOf(new, id)
             here == IF ls # <<>> /\ rs # <<>>
                     THEN [k \in 1..(Len(ls) * Len(rs)) |->
                              MergedRow(id, ls[((k - 1) \div Len(rs)) + 1].val,
                                            rs[((k - 1) % Len(rs)) + 1].val)]
                     ELSE IF ls # <<>>
                     THEN [k \in 1..Len(ls) |-> MergedRow(id, ls[k].val, "NaN")]
                     ELSE [k \in 1..Len(rs) |-> MergedRow(id, "NaN", rs[k].val)]
         IN  here \o OuterJoinFrom(i + 1, old, new)

OuterJoin(old, new) == OuterJoinFrom(1, old, new)

\* an inner join: the left rows without a matching right row are dropped
RECURSIVE InnerJoin(_, _, _)
InnerJoin(left, right, column) ==
    IF left = <<>> THEN <<>>
    ELSE LET r  == Head(left)
             ms == RowsOf(right, r.TradeID)
         IN  [k \in 1..Len(ms) |-> [r EXCEPT ![column] = ms[k].val]]
             \o InnerJoin(Tail(left), right, column)

\* df.merge(right, on="TradeID", how="left"): every left row is kept, once per matching
\* right row, or once with NaN when there is none
RECURSIVE LeftJoin(_, _, _)
LeftJoin(left, right, column) ==
    IF left = <<>> THEN <<>>
    ELSE LET r  == Head(left)
             ms == RowsOf(right, r.TradeID)
             here == IF ms = <<>> THEN << [r EXCEPT ![column] = "NaN"] >>
                     ELSE [k \in 1..Len(ms) |-> [r EXCEPT ![column] = ms[k].val]]
         IN  here \o LeftJoin(Tail(left), right, column)

\* UnifiedDataLoaderAgent._merge_dataframes with the four tables present (both callers
\* pass all four).  A DataFrame built from an empty JSON list has no TradeID column:
\* merging it raises KeyError, which the caller's except clause turns into None.
MergeDataframes(tables, emptyHasColumns) ==
    IF ~emptyHasColumns /\ \E i \in 1..Len(Endpoints) : tables[Endpoints[i]] = <<>>
    THEN NoneDf
    ELSE Df(LeftJoin(LeftJoin(OuterJoin(tables.old_pricing, tables.new_pricing),
                              tables.trade_metadata, "meta"),
                     tables.funding_reference, "funding"))

\* an API load that merges the tables it did get, the failed one taken as empty
LoadFromApiPartial(api, failed) ==
    IF ~api.configured THEN NoneDf
    ELSE IF failed # "none" THEN MergeDataframes([api EXCEPT ![failed] = <<>>], TRUE)
    ELSE MergeDataframes(api, FALSE)

\* UnifiedDataLoaderAgent._load_from_api: `failed` is the endpoint whose fetch fails
\* (request error, timeout, bad status) during this load, or "none"
LoadFromApi(api, failed) ==
    IF ~api.configured THEN NoneDf
    ELSE IF failed # "none" THEN NoneDf
    ELSE MergeDataframes(api, FALSE)

\* UnifiedDataLoaderAgent._load_from_files: filesOk is false when the directory or one
\* of the four sheets is missing or unreadable
LoadFromFiles(files, filesOk) ==
    IF ~files.configured THEN NoneDf
    ELSE IF ~filesOk THEN NoneDf
    ELSE MergeDataframes(files, TRUE)

\* UnifiedDataLoaderAgent._validate_api_connection: one fetch of old_pricing
ValidateApiConnection(api, probeOk) ==
    api.configured /\ probeOk /\ api.old_pricing # <<>>

Outcome(result, used, api_df, file_df, api_attempts, file_attempts) ==
    [result |-> result, used |-> used, api_df |-> api_df, file_df |-> file_df,
     api_attempts |-> api_attempts, file_attempts |-> file_attempts]

\* an auto load that commits to the API once the probe succeeded
LoadAutoNoFallback(api, files, probeOk, failed, filesOk) ==
    LET available == ValidateApiConnection(api, probeOk)
        api_df    == LoadFromApi(api, failed)
        file_df   == LoadFromFiles(files, filesOk)
    IN  IF available THEN Outcome(api_df, "api", api_df, NoneDf, 1, 0)
        ELSE Outcome(file_df, "files", NoneDf, file_df, 0, 1)

\* UnifiedDataLoaderAgent._load_auto
LoadAuto(api, files, probeOk, failed, filesOk) ==
    LET available == ValidateApiConnection(api, probeOk)
        api_df    == IF available THEN LoadFromApi(api, failed) ELSE NoneDf
        file_df   == LoadFromFiles(files, filesOk)
    IN  IF available /\ api_df.ok /\ api_df.rows # <<>>
        THEN Outcome(api_df, "api", api_df, NoneDf, 1, 0)
        ELSE Outcome(file_df, "files", api_df, file_df, IF available THEN 1 ELSE 0, 1)

\* a merge that appends every file row, also those of trades the API has
MergeHybridDataAll(api_df, file_df) == Df(api_df.rows \o file_df.rows)

\* UnifiedDataLoaderAgent._merge_hybrid_data
MergeHybridData(api_df, file_df) ==
    LET api_trade_ids     == IdsOf(api_df.rows)
        file_trade_ids    == IdsOf(file_df.rows)
        missing_trade_ids == file_trade_ids \ api_trade_ids
        missing_data      == SelectSeq(file_df.rows, LAMBDA r : r.TradeID \in missing_trade_ids)
    IN  IF missing_trade_ids # {} THEN Df(api_df.rows \o missing_data) ELSE api_df

\* UnifiedDataLoaderAgent._load_hybrid
LoadHybrid(api, files, failed, filesOk) ==
    LET api_df  == IF api.configured THEN LoadFromApi(api, failed) ELSE NoneDf
        file_df == IF files.configured THEN LoadFromFiles(files, filesOk) ELSE NoneDf
        result  == IF api_df.ok /\ file_df.ok THEN MergeHybridData(api_df, file_df)
                   ELSE IF api_df.ok THEN api_df
                   ELSE IF file_df.ok THEN file_df
                   ELSE NoneDf
    IN  Outcome(result, "hybrid", api_df, file_df,
                IF api.configured THEN 1 ELSE 0, IF files.configured THEN 1 ELSE 0)

\* UnifiedDataLoaderAgent.load_data
UnifiedLoadData(source, api, files, probeOk, failed, filesOk) ==
    CASE source = "files"  -> LET d == LoadFromFiles(files, filesOk)
                              IN  Outcome(d, "files", NoneDf, d, 0, 1)
      [] source = "api"    -> LET d == LoadFromApi(api, failed)
                              IN  Outcome(d, "api", d, NoneDf, 1, 0)
      [] source = "auto"   -> LoadAuto(api, files, probeOk, failed, filesOk)
      [] source = "hybrid" -> LoadHybrid(api, files, failed, filesOk)

\* HybridDataLoaderAgent.load_auto: the same protocol over APIDataLoaderAgent
\* (validate_api_connection, load_all_data_from_api) and DataLoaderAgent.load_all_data
HybridAgentLoadAuto(api, files, probeOk, failed, filesOk) ==
    LET available == api.configured /\ probeOk /\ api.old_pricing # <<>>
        api_df    == IF available /\ failed = "none" THEN MergeDataframes(api, FALSE) ELSE NoneDf
        file_df   == IF files.configured /\ filesOk THEN MergeDataframes(files, TRUE) ELSE NoneDf
    IN  IF available /\ api_df.ok /\ api_df.rows # <<>>
        THEN Outcome(api_df, "api", api_df, NoneDf, 1, 0)
        ELSE Outcome(file_df, "files", api_df, file_df, IF available THEN 1 ELSE 0, 1)

\* HybridDataLoaderAgent.load_data: "files", "api", "auto"; any other source is an error
HybridAgentLoadData(source, api, files, probeOk, failed, filesOk) ==
    CASE source = "files" -> LET d == IF files.configured /\ filesOk
                                      THEN MergeDataframes(files, TRUE) ELSE NoneDf
                             IN  Outcome(d, "files", NoneDf, d, 0, 1)
      [] source = "api"   -> LET d == IF api.configured /\ failed = "none"
                                      THEN MergeDataframes(api, FALSE) ELSE NoneDf
                             IN  Outcome(d, "api", d, NoneDf, 1, 0)
      [] source = "auto"  -> HybridAgentLoadAuto(api, files, probeOk, failed, filesOk)
      [] OTHER            -> Outcome(NoneDf, "none", NoneDf, NoneDf, 0, 0)

\* ---- inputs of the loaders

MaxCopies == 2    \* rows a metadata table holds for one trade

ApiIds  == <<"A", "B">>
FileIds == <<"B", "C">>

RECURSIVE TableOf(_, _, _, _)
TableOf(ids, i, count, src) ==
    IF i > Len(ids) THEN <<>>
    ELSE [k \in 1..count[ids[i]] |-> RawRow(ids[i], src)] \o TableOf(ids, i + 1, count, src)

PricingTables(ids, src) == {TableOf(ids, 1, c, src) : c \in [Range(ids) -> 0..1]}
MetaTables(ids, src)    == {TableOf(ids, 1, [id \in Range(ids) |-> n], src) : n \in 1..MaxCopies}
FullTable(ids, src)     == TableOf(ids, 1, [id \in Range(ids) |-> 1], src)

Source(configured, old, new, meta, funding) ==
    [configured |-> configured, old_pricing |-> old, new_pricing |-> new,
     trade_metadata |-> meta, funding_reference |-> funding]

Unconfigured == Source(FALSE, <<>>, <<>>, <<>>, <<>>)

Sources(ids, src) ==
    {Unconfigured} \cup
    {Source(TRUE, old, new, meta, FullTable(ids, src)) :
        old \in PricingTables(ids, src), new \in PricingTables(ids, src),
        meta \in MetaTables(ids, src)}

\* a load_data call: the loader class, the requested source and what the network and
\* the file system do during the call
Call(loader, source, probeOk, failed, filesOk, out) ==
    [loader |-> loader, source |-> source, probeOk |-> probeOk, failed |-> failed,
     filesOk |-> filesOk, out |-> out]

NotLoaded == Call("none", "none", FALSE, "none", FALSE,
                  Outcome(NoneDf, "none", NoneDf, NoneDf, 0, 0))

\* a response body: its JSON shape and the rows it carries
Body(shape, rows) == [shape |-> shape, rows |-> rows]

NotFetched == [body |-> Body("none", <<>>), requestOk |-> FALSE, df |-> NoneDf]

LoadIdle ==
    /\ apiSource = Unconfigured
    /\ fileSource = Unconfigured
    /\ load = NotLoaded
    /\ fetched = NotFetched

LoadInit ==
    /\ apiSource \in Sources(ApiIds, "api")
    /\ fileSource \in Sources(FileIds, "file")
    /\ load = NotLoaded
    /\ fetched = NotFetched

SourceModes == {"files", "api", "auto", "hybrid"}
Failures    == {"none"} \cup Range(Endpoints)

\* one load_data call on a UnifiedDataLoaderAgent (a pipeline run loads once)
UnifiedLoad(source, probeOk, failed, filesOk) ==
    /\ load.loader = "none"
    /\ load' = Call("unified", source, probeOk, failed, filesOk,
                    UnifiedLoadData(source, apiSource, fileSource, probeOk, failed, filesOk))
    /\ UNCHANGED <<apiSource, fileSource, fetched, rulesVars, reconVars, crewVars>>

\* one load_data call on UnifiedDataLoaderAgent(..., auto_fallback=False): __init__
\* stores the option and no method reads it
UnifiedLoadNoFallback(source, probeOk, failed, filesOk) ==
    /\ load.loader = "none"
    /\ load' = Call("unified_no_fallback", source, probeOk, failed, filesOk,
                    UnifiedLoadData(source, apiSource, fileSource, probeOk, failed, filesOk))
    /\ UNCHANGED <<apiSource, fileSource, fetched, rulesVars, reconVars, crewVars>>

\* one load_data call on a HybridDataLoaderAgent
HybridAgentLoad(source, probeOk, failed, filesOk) ==
    /\ load.loader = "none"
    /\ load' = Call("hybrid_agent", source, probeOk, failed, filesOk,
                    HybridAgentLoadData(source, apiSource, fileSource, probeOk, failed, filesOk))
    /\ UNCHANGED <<apiSource, fileSource, fetched, rulesVars, reconVars, crewVars>>

\* ---- the merge and the fetch on their own

\* DataLoaderAgent.load_all_data: the four sheets read and merged; an unreadable sheet
\* makes read_excel raise, and no table is returned
DataLoaderLoadAllData(files, readable) ==
    IF ~readable THEN NoneDf
    ELSE Df(LeftJoin(LeftJoin(OuterJoin(files.old_pricing, files.new_pricing),
                              files.trade_metadata, "meta"),
                     files.funding_reference, "funding"))

\* UnifiedDataLoaderAgent._fetch_from_api / APIDataLoaderAgent.fetch_data: requestOk is
\* false when the request raises (connection error, timeout, bad status, invalid JSON)
FetchFromApi(body, requestOk) ==
    IF ~requestOk THEN NoneDf
    ELSE IF body.shape \in {"data", "results", "object"}      \* isinstance(data, dict)
         THEN IF body.shape = "data" THEN Df(body.rows)       \* pd.DataFrame(data['data'])
              ELSE IF body.shape = "results" THEN Df(body.rows)
              ELSE Df(body.rows)                              \* pd.DataFrame([data])
    ELSE IF body.shape = "array" THEN Df(body.rows)           \* isinstance(data, list)
    ELSE NoneDf                                               \* a string, a number, null

\* the body a server answers with when it wraps a table in the given shape: an envelope
\* or a bare array of the rows, one JSON object with neither key (the first record, or
\* an error message when there is none), or a scalar
ServerBody(shape, table) ==
    CASE shape \in {"data", "results", "array"} -> Body(shape, table)
      [] shape = "object" -> Body("object", IF table = <<>> THEN <<[error |-> "not found"]>>
                                                            ELSE <<table[1]>>)
      [] OTHER -> Body("scalar", <<>>)

Shapes == {"data", "results", "array", "object", "scalar"}

HasTradeID(rows) == \A i \in 1..Len(rows) : "TradeID" \in DOMAIN rows[i]

\* APIDataLoaderAgent.load_all_data_from_api: four fetches, then the merge; a table
\* without a TradeID column makes the merge raise KeyError, caught and turned into None
LoadAllDataFromApi(api, shape, failed) ==
    LET got == [e \in Range(Endpoints) |-> FetchFromApi(ServerBody(shape, api[e]), failed # e)]
    IN  IF \E e \in Range(Endpoints) : ~got[e].ok THEN NoneDf
        ELSE IF \E e \in Range(Endpoints) : ~HasTradeID(got[e].rows) THEN NoneDf
        ELSE MergeDataframes([old_pricing |-> got["old_pricing"].rows,
                              new_pricing |-> got["new_pricing"].rows,
                              trade_metadata |-> got["trade_metadata"].rows,
                              funding_reference |-> got["funding_reference"].rows], FALSE)

\* tables with any number of rows per trade, none included
AnyTables(ids, src, most) == {TableOf(ids, 1, c, src) : c \in [Range(ids) -> 0..most]}

MergeSources(ids, src) ==
    {Source(TRUE, old, new, meta, funding) :
        old \in PricingTables(ids, src), new \in PricingTables(ids, src),
        meta \in AnyTables(ids, src, MaxCopies), funding \in AnyTables(ids, src, 1)}

MergeInit ==
    /\ \/ apiSource \in MergeSources(ApiIds, "api") /\ fileSource = Unconfigured
       \/ apiSource = Unconfigured /\ fileSource \in MergeSources(FileIds, "file")
    /\ load = NotLoaded
    /\ fetched = NotFetched

\* one DataLoaderAgent.load_all_data call
LoadAllData(readable) ==
    /\ load.loader = "none"
    /\ fileSource.configured
    /\ LET d == DataLoaderLoadAllData(fileSource, readable)
       IN  load' = Call("data_loader", "files", FALSE, "none", readable,
                        Outcome(d, "files", NoneDf, d, 0, 1))
    /\ UNCHANGED <<apiSource, fileSource, fetched, rulesVars, reconVars, crewVars>>

\* one APIDataLoaderAgent.load_all_data_from_api call against a server that answers in
\* the given shape; `fetched` keeps its first fetch, the one of old_pricing
LoadAllFromApi(shape, failed) ==
    /\ load.loader = "none"
    /\ apiSource.configured
    /\ LET d == LoadAllDataFromApi(apiSource, shape, failed)
           body == ServerBody(shape, apiSource.old_pricing)
           requestOk == failed # "old_pricing"
       IN  /\ load' = Call("api_loader", "api", FALSE, failed, FALSE,
                           Outcome(d, "api", d, NoneDf, 1, 0))
           /\ fetched' = [body |-> body, requestOk |-> requestOk,
                          df |-> FetchFromApi(body, requestOk)]
    /\ UNCHANGED <<apiSource, fileSource, rulesVars, reconVars, crewVars>>

\* ------------------------------------------------------------------ pipeline

\* the values the four tables hold for a trade (the same in the files and at the API):
\* A is unchanged, B moves by more than the default tolerances, C by less
Book(id) ==
    CASE id = "A" -> PricedRow(Num(0), Num(0), Num(0), Num(0))
      [] id = "B" -> PricedRow(Num(0), Num(1200), Num(0), Num(8))
      [] OTHER    -> PricedRow(Num(0), Num(400), Num(0), Num(2))

\* a row of the loaded table with the values of its cells; a cell the joins left
\* empty is NaN
TradeOf(m) ==
    [TradeID |-> m.TradeID,
     PV_old |-> IF m.PV_old = "NaN" THEN NaN ELSE Book(m.TradeID).PV_old,
     PV_new |-> IF m.PV_new = "NaN" THEN NaN ELSE Book(m.TradeID).PV_new,
     Delta_old |-> IF m.PV_old = "NaN" THEN NaN ELSE Book(m.TradeID).Delta_old,
     Delta_new |-> IF m.PV_new = "NaN" THEN NaN ELSE Book(m.TradeID).Delta_new,
     FundingCurve |-> IF m.funding = "NaN" THEN "NaN" ELSE ReferenceTrade.FundingCurve,
     ModelVersion |-> IF m.funding = "NaN" THEN "NaN" ELSE ReferenceTrade.ModelVersion,
     CSA_Type |-> IF m.funding = "NaN" THEN "NaN" ELSE ReferenceTrade.CSA_Type,
     ProductType |-> IF m.meta = "NaN" THEN "NaN" ELSE ReferenceTrade.ProductType]

\* ReconciliationCrew.__init__: the hybrid loader when an API configuration is given,
\* the file loader otherwise
CrewLoader(api) == IF api.configured THEN "hybrid_agent" ELSE "data_loader"

\* step 1 of ReconciliationCrew.run: load_data(source, ...) on a loader that has it,
\* load_all_data() on the file loader
CrewLoad(loader, source, api, files, probeOk, failed, filesOk) ==
    IF loader = "hybrid_agent"
    THEN HybridAgentLoadData(source, api, files, probeOk, failed, filesOk)
    ELSE LET d == DataLoaderLoadAllData(files, files.configured /\ filesOk)
         IN  Outcome(d, "files", NoneDf, d, 0, 1)

\* steps 2 and 3 on one row: add_diff_flags, then the PV and the Delta analysis of a
\* new AnalyzerAgent
Reconciled(agent, t) == AddDiffFlags(agent, t) @@ t

Diagnosed(r) ==
    LET pv == Analyze("pv_rules", SeedRules.pv_rules, r @@ [PV_Diagnosis |-> NoColumn,
                                                            Delta_Diagnosis |-> NoColumn])
    IN  [PV_Diagnosis |-> pv,
         Delta_Diagnosis |-> Analyze("delta_rules", SeedRules.delta_rules,
                                     r @@ [PV_Diagnosis |-> pv, Delta_Diagnosis |-> NoColumn])]
        @@ r

\* what a run leaves: the outcome, the table handed back, and the table the steps
\* worked on
CrewOutcome(result, table, df) == [result |-> result, table |-> table, df |-> df]

\* a run that hands back the reconciled table when the training fails
CrewRunReturningPartial(loader, out, agent, trainOk) ==
    LET df == out.result
        flagged == [i \in 1..Len(df.rows) |-> Reconciled(agent, TradeOf(df.rows[i]))]
        diagnosed == [i \in 1..Len(df.rows) |-> Diagnosed(flagged[i])]
    IN  IF ~df.ok \/ df.rows = <<>> THEN CrewOutcome("no_data", NoTable, NoTable)
        ELSE IF ~trainOk THEN CrewOutcome("table", flagged, diagnosed)
        ELSE CrewOutcome("table", diagnosed, diagnosed)

\* ReconciliationCrew.run after the load: None when there is no data; the file loader
\* raises when a sheet cannot be read; the training raises when trainOk is false; an
\* exception leaves the caller without a table
CrewRun(loader, out, agent, trainOk) ==
    LET df == out.result
        diagnosed == [i \in 1..Len(df.rows) |->
                         Diagnosed(Reconciled(agent, TradeOf(df.rows[i])))]
    IN  IF loader = "data_loader" /\ ~df.ok THEN CrewOutcome("error", NoTable, NoTable)
        ELSE IF ~df.ok \/ df.rows = <<>> THEN CrewOutcome("no_data", NoTable, NoTable)
        ELSE IF ~trainOk THEN CrewOutcome("error", NoTable, diagnosed)
        ELSE CrewOutcome("table", diagnosed, diagnosed)

NoTolerances == [pv_tolerance |-> -1, delta_tolerance |-> -1]

\* a pipeline call: entry point, requested source, tolerances given to the entry point
\* and those the ReconAgent of the run had, outcome
Run(entry, source, supplied, applied, out) ==
    [entry |-> entry, source |-> source, supplied |-> supplied, applied |-> applied,
     result |-> out.result, table |-> out.table, df |-> out.df]

\* no apply in progress
NoBatch == [step |-> 0, rules |-> SeedRules, column |-> Unevaluated]

CrewIdle ==
    /\ crew = Run("none", "none", NoTolerances, NoTolerances,
                  CrewOutcome("none", NoTable, NoTable))
    /\ batch = NoBatch

\* the sources a pipeline run finds: each configured or not, any pricing tables, a
\* metadata and a funding row for every trade
CrewSources(ids, src) ==
    {Unconfigured} \cup
    {Source(TRUE, old, new, FullTable(ids, src), FullTable(ids, src)) :
        old \in PricingTables(ids, src), new \in PricingTables(ids, src)}

CrewInit ==
    /\ apiSource \in CrewSources(ApiIds, "api")
    /\ fileSource \in CrewSources(FileIds, "file")
    /\ load = NotLoaded
    /\ fetched = NotFetched

\* pipeline.main: ReconciliationCrew(data_dir, api_config), then run(source, ...).  The
\* analyzer's label generator counts the diagnoses and saves; the ML agent trains when
\* it has no model and the run gets that far
Main(source, probeOk, failed, filesOk, trainOk) ==
    /\ crew.entry = "none"
    /\ apiSource.configured \/ fileSource.configured
    /\ load' = Call(CrewLoader(apiSource), source, probeOk, failed, filesOk,
                    CrewLoad(CrewLoader(apiSource), source, apiSource, fileSource,
                             probeOk, failed, filesOk))
    /\ crew' = Run("main", source, NoTolerances, NewReconAgent,
                   CrewRun(load'.loader, load'.out, NewReconAgent, trainOk))
    /\ IF crew'.df # NoTable
       THEN /\ label_frequency' =
                   AddCounts(AddCounts(NoFrequency,
                                       [i \in 1..Len(crew'.df) |-> crew'.df[i].PV_Diagnosis]),
                             [i \in 1..Len(crew'.df) |-> crew'.df[i].Delta_Diagnosis])
            /\ historical_patterns' = DiscoverPatterns(crew'.df)
            /\ config_file' = SavePatterns(historical_patterns', label_frequency', SeedRules)
            /\ ml_agent' = IF crew'.result = "table" /\ ml_agent.model = "none"
                           THEN [model |-> "trained",
                                 label_frequency |-> label_frequency',
                                 historical_patterns |-> historical_patterns']
                           ELSE ml_agent
       ELSE UNCHANGED <<label_frequency, historical_patterns, config_file, ml_agent>>
    /\ UNCHANGED <<business_rules, row, diagnosis, rulesOp, df_in, runs, labels, batch,
                   apiSource, fileSource, fetched, reconVars>>

\* app.run_reconciliation: ReconciliationCrew is constructed with pv_tolerance and
\* delta_tolerance, which its __init__ does not take: TypeError, caught, no table
RunReconciliation(source, tol) ==
    /\ crew.entry = "none"
    /\ crew' = Run("run_reconciliation", source, tol, NoTolerances,
                   CrewOutcome("error", NoTable, NoTable))
    /\ UNCHANGED <<rulesVars, reconVars, loadVars, ml_agent, labels, batch>>

\* ------------------------------------------------------------------ specifications

RulesNext ==
    \/ \E t \in RuleTypes, rule \in AddRules : AddBusinessRule(t, rule[1], rule[2], rule[3])
    \/ Apply

EngineNext ==
    \/ \E t \in RuleTypes, rule \in AnyAddRules : AddBusinessRule(t, rule[1], rule[2], rule[3])
    \/ Apply
    \/ Train
    \/ NewEngine

BatchNext ==
    \/ \E t \in RuleTypes, rule \in AddRules : AddBusinessRule(t, rule[1], rule[2], rule[3])
    \/ ApplyStep
    \/ ApplyWithoutAnyMismatch

LabelsNext ==
    \/ \E t \in RuleTypes, rule \in AnyAddRules : AddBusinessRule(t, rule[1], rule[2], rule[3])
    \/ Apply
    \/ \E d \in BOOLEAN, h \in BOOLEAN : GenerateLabelsCall(d, h)

ReconNext ==
    \/ \E tol \in Tolerances : DetectMismatches(tol)
    \/ \E tol \in Tolerances : UpdateToleranceConfig(tol)
    \/ GetToleranceConfig

LoadNext ==
    \/ \E s \in SourceModes, p \in BOOLEAN, f \in Failures, k \in BOOLEAN :
           UnifiedLoad(s, p, f, k)
    \/ \E s \in SourceModes, p \in BOOLEAN, f \in Failures, k \in BOOLEAN :
           HybridAgentLoad(s, p, f, k)
    \/ \E s \in SourceModes, p \in BOOLEAN, f \in Failures, k \in BOOLEAN :
           UnifiedLoadNoFallback(s, p, f, k)

CrewNext ==
    \/ \E s \in SourceModes, p \in BOOLEAN, f \in Failures, k \in BOOLEAN, l \in BOOLEAN :
           Main(s, p, f, k, l)
    \/ \E s \in SourceModes, tol \in Tolerances : RunReconciliation(s, tol)

MergeNext ==
    \/ \E readable \in BOOLEAN : LoadAllData(readable)
    \/ \E shape \in Shapes, f \in Failures : LoadAllFromApi(shape, f)
    \/ \E src \in {"files", "api"}, f \in Failures, k \in BOOLEAN : UnifiedLoad(src, TRUE, f, k)

\* Each part of the pipeline is checked on its own, the other parts at rest.
InitRules == RulesInit /\ ReconIdle /\ LoadIdle /\ MLIdle /\ CrewIdle
InitRecon == RulesIdle /\ ReconInit /\ LoadIdle /\ MLIdle /\ CrewIdle
InitLoad  == RulesIdle /\ ReconIdle /\ LoadInit /\ MLIdle /\ CrewIdle
InitMerge == RulesIdle /\ ReconIdle /\ MergeInit /\ MLIdle /\ CrewIdle
InitEngine == EngineInit /\ ReconIdle /\ LoadIdle /\ MLInit /\ CrewIdle
InitLabels == EngineInit /\ ReconIdle /\ LoadIdle /\ MLIdle /\ CrewIdle
InitBatch == EngineInit /\ ReconIdle /\ LoadIdle /\ MLIdle /\ CrewIdle
InitCrew == RulesIdle /\ ReconIdle /\ CrewInit /\ MLInit /\ CrewIdle

SpecRules == InitRules /\ [][RulesNext]_vars
SpecRecon == InitRecon /\ [][ReconNext]_vars
SpecLoad  == InitLoad /\ [][LoadNext]_vars
SpecMerge == InitMerge /\ [][MergeNext]_vars
SpecEngine == InitEngine /\ [][EngineNext]_vars
SpecLabels == InitLabels /\ [][LabelsNext]_vars
SpecCrew == InitCrew /\ [][CrewNext]_vars
SpecBatch == InitBatch /\ [][BatchNext]_vars

\* ------------------------------------------------------------------ claims: rule engine

\* the trade under study as the PV analysis and the Delta analysis of the last apply
\* were handed it
SeenPv    == View(row, df_in.pv, df_in.delta)
SeenDelta == View(row, diagnosis.pv, df_in.delta)

Matches(agent, rules, r) ==
    {i \in 1..Len(rules) : EvaluateCondition(agent, r, rules[i].condition)}

\* the matching rules no other matching rule precedes: none has a higher priority, and
\* none of equal priority stands earlier in the list
Winners(agent, rules, r) ==
    {i \in Matches(agent, rules, r) :
        \A j \in Matches(agent, rules, r) :
            \/ rules[j].priority < rules[i].priority
            \/ rules[j].priority = rules[i].priority /\ j >= i}

ExpectedLabel(agent, rules, r) ==
    IF Matches(agent, rules, r) = {} THEN WithinTolerance
    ELSE rules[CHOOSE i \in Winners(agent, rules, r) : TRUE].label

\* C1: analyze() returns the label of the matching rule of highest priority, the
\* earliest inserted among matching rules of equal priority, and "Within tolerance"
\* when no rule matches; this for the PV and the Delta rule set, seed or extended.
C1_FirstMatchInPriorityOrder ==
    rulesOp = "apply" =>
        /\ diagnosis.pv = ExpectedLabel("pv_rules", business_rules.pv_rules, SeenPv)
        /\ diagnosis.delta = ExpectedLabel("delta_rules", business_rules.delta_rules, SeenDelta)
        /\ Matches("pv_rules", business_rules.pv_rules, SeenPv) # {}
             => Cardinality(Winners("pv_rules", business_rules.pv_rules, SeenPv)) = 1

\* C1 witness: two matching rules share the highest matching priority, carry different
\* labels, and the trade got the label of the one inserted first.
C1_Witness ==
    /\ rulesOp = "apply"
    /\ \E i, j \in Matches("pv_rules", business_rules.pv_rules, SeenPv) :
          /\ i < j
          /\ i \in Winners("pv_rules", business_rules.pv_rules, SeenPv)
          /\ business_rules.pv_rules[i].priority = business_rules.pv_rules[j].priority
          /\ business_rules.pv_rules[i].label # business_rules.pv_rules[j].label
          /\ diagnosis.pv = business_rules.pv_rules[i].label
          /\ j > Len(SeedRules.pv_rules)

PositiveMatch(agent, rules, r) ==
    \E i \in Matches(agent, rules, r) : rules[i].priority > 0

\* C2: for every rule set reachable by add_business_rule, the label assigned is
\* "Within tolerance" if and only if no rule with priority > 0 matched the trade.
C2_FallbackIffNoPositiveRuleMatched ==
    rulesOp = "apply" =>
        /\ diagnosis.pv = WithinTolerance
             <=> ~PositiveMatch("pv_rules", business_rules.pv_rules, SeenPv)
        /\ diagnosis.delta = WithinTolerance
             <=> ~PositiveMatch("delta_rules", business_rules.delta_rules, SeenDelta)

\* C3: under the seed pv_rules a trade whose PV_old is absent is diagnosed
\* "New trade - no prior valuation", whatever its flags and other fields.
C3_AbsentOldValueIsNewTrade ==
    (/\ rulesOp = "apply"
     /\ business_rules.pv_rules = SeedRules.pv_rules
     /\ IsMissing(row.PV_old))
        => diagnosis.pv = NewTradeLabel

\* ------------------------------------------------------------------ claims: reconciliation

Flagged == request.handler = "detect_mismatches"

AbsDiff(new, old) == IF new.v >= old.v THEN new.v - old.v ELSE old.v - new.v
BothPresent(new, old) == ~IsMissing(new) /\ ~IsMissing(old)

\* C4: after add_diff_flags every row has Any_Mismatch = (PV_Mismatch or Delta_Mismatch),
\* for every tolerance >= 0 and every combination of present and absent values.
C4_AnyMismatchIsDisjunction ==
    Flagged => \A i \in 1..Len(response) :
        response[i].Any_Mismatch = (response[i].PV_Mismatch \/ response[i].Delta_Mismatch)

\* C4 witness: a flagged row whose only mismatch is the Delta one, its PV values absent.
C4_Witness ==
    /\ Flagged
    /\ IsMissing(response[1].PV_old)
    /\ ~response[1].PV_Mismatch
    /\ response[1].Delta_Mismatch
    /\ response[1].Any_Mismatch

\* C5: with both values present, PV_Mismatch holds exactly when |PV_new - PV_old| is
\* strictly greater than the request's PV tolerance, and likewise Delta_Mismatch; old
\* 104500, new 105200 at tolerance 1000 gives PV_Diff 700 and no mismatch.
C5_StrictlyGreaterThanTolerance ==
    Flagged =>
        LET r == response[1] IN
        /\ BothPresent(request.data.PV_new, request.data.PV_old)
             => /\ r.PV_Mismatch
                     <=> AbsDiff(request.data.PV_new, request.data.PV_old) > request.pv_tolerance
                /\ r.PV_Diff = Num(request.data.PV_new.v - request.data.PV_old.v)
        /\ BothPresent(request.data.Delta_new, request.data.Delta_old)
             => (r.Delta_Mismatch
                     <=> AbsDiff(request.data.Delta_new, request.data.Delta_old)
                            > request.delta_tolerance)
        /\ (/\ request.data.PV_old = Num(104500)
            /\ request.data.PV_new = Num(105200)
            /\ request.pv_tolerance = 1000)
             => r.PV_Diff = Num(700) /\ ~r.PV_Mismatch

\* C5 witness: a difference equal to a positive tolerance, not flagged.
C5_Witness ==
    /\ Flagged
    /\ BothPresent(request.data.PV_new, request.data.PV_old)
    /\ request.pv_tolerance > 0
    /\ AbsDiff(request.data.PV_new, request.data.PV_old) = request.pv_tolerance
    /\ ~response[1].PV_Mismatch

\* C6: when the old or the new value is absent, the difference is absent (not a number
\* computed with zero for the absent value), the mismatch flag is false, and the row's
\* own PV/Delta cells are returned as they were.
C6_AbsenceIsPropagated ==
    Flagged =>
        LET r == response[1] IN
        /\ ~BothPresent(request.data.PV_new, request.data.PV_old)
             => IsMissing(r.PV_Diff) /\ r.PV_Mismatch = FALSE
        /\ ~BothPresent(request.data.Delta_new, request.data.Delta_old)
             => IsMissing(r.Delta_Diff) /\ r.Delta_Mismatch = FALSE
        /\ r.PV_old = request.data.PV_old /\ r.PV_new = request.data.PV_new
        /\ r.Delta_old = request.data.Delta_old /\ r.Delta_new = request.data.Delta_new

\* C6 witness: the old PV is absent, the new one is a value above the tolerance.
C6_Witness ==
    /\ Flagged
    /\ IsMissing(request.data.PV_old)
    /\ ~IsMissing(request.data.PV_new)
    /\ request.data.PV_new.v > request.pv_tolerance
    /\ IsMissing(response[1].PV_Diff)
    /\ ~response[1].PV_Mismatch

\* C7: tolerances are scoped to the request: a reconciliation request is flagged with
\* the tolerances it supplied, and serving it leaves the tolerance configuration that
\* other requests and later reads see as it was.
C7_TolerancesAreRunScoped ==
    [][request'.handler = "detect_mismatches" =>
          /\ response' = << AddDiffFlags([pv_tolerance |-> request'.pv_tolerance,
                                          delta_tolerance |-> request'.delta_tolerance],
                                         request'.data) >>
          /\ recon_agent' = recon_agent]_vars

\* ------------------------------------------------------------------ claims: data loaders

\* what each source holds, whatever the loader does with it
ApiProbeSucceeds == apiSource.configured /\ load.probeOk /\ apiSource.old_pricing # <<>>
ApiFetchSucceeds ==
    /\ load.failed = "none"
    /\ \A i \in 1..Len(Endpoints) : apiSource[Endpoints[i]] # <<>>
ApiTable ==
    LeftJoin(LeftJoin(OuterJoin(apiSource.old_pricing, apiSource.new_pricing),
                      apiSource.trade_metadata, "meta"),
             apiSource.funding_reference, "funding")
FileOutcome ==
    IF fileSource.configured /\ load.filesOk
    THEN Df(LeftJoin(LeftJoin(OuterJoin(fileSource.old_pricing, fileSource.new_pricing),
                              fileSource.trade_metadata, "meta"),
                     fileSource.funding_reference, "funding"))
    ELSE NoneDf

UnifiedHybrid == load.loader = "unified" /\ load.source = "hybrid"

KeepIds(rows, ids) == SelectSeq(rows, LAMBDA r : r.TradeID \in ids)
DropIds(rows, ids) == SelectSeq(rows, LAMBDA r : r.TradeID \notin ids)
FromApi(r) == \A c \in {"PV_old", "PV_new", "meta", "funding"} : r[c] \in {"api", "NaN"}

\* C9: in hybrid mode, when both sources succeed the result holds exactly the union of
\* their trade identifiers, the rows of every trade the API has being the API rows and
\* the only file rows being those of trades the API lacks; when exactly one source
\* succeeds its table is returned unchanged; when neither does the load fails.
C9_HybridMergePrefersApi ==
    UnifiedHybrid =>
        LET o == load.out
            apiOk  == apiSource.configured /\ ApiFetchSucceeds
            fileOk == FileOutcome.ok
            apiIds == IdsOf(ApiTable)
        IN  /\ apiOk /\ fileOk =>
                 /\ o.result.ok
                 /\ IdsOf(o.result.rows) = apiIds \cup IdsOf(FileOutcome.rows)
                 /\ KeepIds(o.result.rows, apiIds) = ApiTable
                 /\ DropIds(o.result.rows, apiIds) = DropIds(FileOutcome.rows, apiIds)
                 /\ \A i \in 1..Len(o.result.rows) :
                        o.result.rows[i].TradeID \in apiIds => FromApi(o.result.rows[i])
            /\ apiOk /\ ~fileOk => o.result = Df(ApiTable)
            /\ ~apiOk /\ fileOk => o.result = FileOutcome
            /\ ~apiOk /\ ~fileOk => ~o.result.ok

\* C9 witness: the API has trades A and B, the files B and C; the result has A, B, C
\* and its B row carries the API values.
C9_Witness ==
    /\ UnifiedHybrid
    /\ load.out.api_df.ok /\ IdsOf(load.out.api_df.rows) = {"A", "B"}
    /\ load.out.file_df.ok /\ IdsOf(load.out.file_df.rows) = {"B", "C"}
    /\ IdsOf(load.out.result.rows) = {"A", "B", "C"}
    /\ \E i \in 1..Len(load.out.result.rows) :
          load.out.result.rows[i].TradeID = "B" /\ load.out.result.rows[i].PV_old = "api"
    /\ \E i \in 1..Len(load.out.result.rows) :
          load.out.result.rows[i].TradeID = "C" /\ load.out.result.rows[i].PV_old = "file"

\* C10: the table a hybrid load returns never holds two rows with the same trade
\* identifier, whatever the API and the files contain.
C10_HybridResultHasNoDuplicateIds ==
    (UnifiedHybrid /\ load.out.result.ok) =>
        \A i, j \in 1..Len(load.out.result.rows) :
            i # j => load.out.result.rows[i].TradeID # load.out.result.rows[j].TradeID

\* C11: in files mode and in api mode a load succeeds only when all four tables were
\* obtained, and then returns the merge of all four; with a missing sheet or a failed
\* endpoint fetch the load fails and returns no table.  Both loader classes.
C11_NoPartialSourceLoad ==
    /\ (load.source = "api" /\ load.out.result.ok)
          => /\ apiSource.configured
             /\ load.failed = "none"
             /\ load.out.result = Df(ApiTable)
    /\ (load.source = "files" /\ load.out.result.ok)
          => /\ fileSource.configured
             /\ load.filesOk
             /\ load.out.result = FileOutcome

\* C11 witness: the API serves four non-empty tables, the fetch of one endpoint fails
\* during an api-mode load, and the load returns nothing although the other three
\* tables and the file source were there.
C11_Witness ==
    /\ load.loader = "unified"
    /\ load.source = "api"
    /\ apiSource.configured
    /\ \A i \in 1..Len(Endpoints) : apiSource[Endpoints[i]] # <<>>
    /\ load.failed = "funding_reference"
    /\ fileSource.configured /\ load.filesOk
    /\ ~load.out.result.ok
    /\ load.out.file_attempts = 0

\* ------------------------------------------------------------------ claims: merge and fetch

\* the four tables the merge of the last load was given
InputTables ==
    IF load.loader = "api_loader"
    THEN [e \in Range(Endpoints) |-> ServerBody(fetched.body.shape, apiSource[e]).rows]
    ELSE IF load.out.used = "api" THEN apiSource ELSE fileSource

PricingIds == IdsOf(InputTables.old_pricing) \cup IdsOf(InputTables.new_pricing)

\* C12: the trade identifiers of a merged table are exactly those of the old-pricing
\* and new-pricing tables together; a pricing trade without a metadata (funding) row is
\* kept with an absent metadata (funding) field, and a trade that only the metadata or
\* the funding table has does not appear.
C12_MergedIdsAreThePricingIds ==
    load.out.result.ok =>
        /\ IdsOf(load.out.result.rows) = PricingIds
        /\ \A i \in 1..Len(load.out.result.rows) :
              LET r == load.out.result.rows[i] IN
              /\ RowsOf(InputTables.trade_metadata, r.TradeID) = <<>> => r.meta = "NaN"
              /\ RowsOf(InputTables.funding_reference, r.TradeID) = <<>> => r.funding = "NaN"

\* C12 witness: a merge where one trade is priced only in the new table and has no
\* metadata row, and the metadata table has a trade neither pricing table has.
C12_Witness ==
    /\ load.loader = "data_loader"
    /\ load.out.result.ok
    /\ \E id \in IdsOf(InputTables.new_pricing) \ IdsOf(InputTables.old_pricing) :
          /\ RowsOf(InputTables.trade_metadata, id) = <<>>
          /\ \E i \in 1..Len(load.out.result.rows) :
                /\ load.out.result.rows[i].TradeID = id
                /\ load.out.result.rows[i].meta = "NaN"
                /\ load.out.result.rows[i].PV_old = "NaN"
    /\ \E id \in IdsOf(InputTables.trade_metadata) \ PricingIds :
          id \notin IdsOf(load.out.result.rows)

\* C13: a merged table has as many rows as the outer join of old and new pricing,
\* whatever the metadata and funding tables hold.
C13_MergedRowCountIsOuterJoinCount ==
    load.out.result.ok =>
        Len(load.out.result.rows)
          = Len(OuterJoin(InputTables.old_pricing, InputTables.new_pricing))

\* C14: a fetch yields a table only for a body that is a `data` envelope, a `results`
\* envelope or a bare array.
C14_FetchAcceptsOnlyKnownShapes ==
    fetched.df.ok => fetched.body.shape \in {"data", "results", "array"}

\* ------------------------------------------------------------------ claims: engine lifecycle

Seen(agent) == IF agent = "pv_rules" THEN SeenPv ELSE SeenDelta
LabelOf(agent) == IF agent = "pv_rules" THEN diagnosis.pv ELSE diagnosis.delta
Added(agent) == (Len(SeedRules[agent]) + 1)..Len(business_rules[agent])
Without(rules, n) == SubSeq(rules, 1, n - 1) \o SubSeq(rules, n + 1, Len(rules))

\* C15: a rule added with add_business_rule is used by the next apply: a trade the
\* rule matches gets its label when its priority is above that of every other matching
\* rule, and a trade it does not match gets the label the rule set without that rule
\* gives the same table.
C15_AddedRuleTakesEffect ==
    rulesOp = "apply" =>
        \A agent \in RuleTypes : \A n \in Added(agent) :
            LET rules == business_rules[agent]
                hits  == Matches(agent, rules, Seen(agent))
            IN  /\ (n \in hits /\ \A j \in hits \ {n} : rules[j].priority < rules[n].priority)
                      => LabelOf(agent) = rules[n].label
                /\ n \notin hits
                      => LabelOf(agent) = Analyze(agent, Without(rules, n), Seen(agent))

\* C15 witness: a cleared swap with a PV mismatch was diagnosed by the priority-2 CSA
\* rule, the priority-3 swap rule was added, and the next apply labels it "Swap
\* repricing" while the reference trade, which the rule does not match, keeps its label.
C15_Witness ==
    /\ rulesOp = "apply"
    /\ df_in.pv = CsaLabel
    /\ diagnosis.pv = SwapLabel
    /\ \E n \in Added("pv_rules") :
          business_rules.pv_rules[n] = Rule(CondSwap, SwapLabel, 3, "custom")
    /\ df_in.ref_pv = WithinTolerance
    /\ diagnosis.ref_pv = WithinTolerance

\* C16: no rule set ever holds a rule whose label or condition is empty.
C16_MalformedRuleIsNeverStored ==
    \A agent \in RuleTypes : \A i \in 1..Len(business_rules[agent]) :
        /\ business_rules[agent][i].label # ""
        /\ business_rules[agent][i].condition # ""

NotRaising(agent, rules) ==
    SelectSeq(rules, LAMBDA rule : ~EvalRaises(Seen(agent), rule.condition))

\* C17: a rule whose condition raises during evaluation counts as not matching: the
\* trade gets the label of the first matching rule, in priority order, among the rules
\* that did not raise, and the other trade of the batch is diagnosed as well.
C17_RaisingConditionDoesNotMatch ==
    rulesOp = "apply" =>
        /\ \A agent \in RuleTypes :
              /\ LabelOf(agent) \in Labels
              /\ LabelOf(agent)
                   = FirstMatch(agent, Seen(agent),
                                SortedByPriority(NotRaising(agent, business_rules[agent])))
        /\ diagnosis.ref_pv \in Labels
        /\ diagnosis.ref_delta \in Labels

\* C17 witness: the priority-3 rule reading PV_Diagnosis raised on a table that has no
\* such column yet, and the cleared swap got the label of the priority-2 CSA rule.
C17_Witness ==
    /\ rulesOp = "apply"
    /\ \E n \in Added("pv_rules") :
          /\ business_rules.pv_rules[n].condition = CondRecheck
          /\ business_rules.pv_rules[n].priority = 3
          /\ EvalRaises(SeenPv, CondRecheck)
    /\ diagnosis.pv = CsaLabel
    /\ diagnosis.ref_pv = WithinTolerance

\* C18: applying the analyzer again to the table it has just diagnosed, the rule sets
\* being the same, gives every trade the labels it had.
C18_ApplyIsIdempotent ==
    [][(rulesOp = "apply" /\ rulesOp' = "apply" /\ business_rules' = business_rules)
          => diagnosis' = diagnosis]_vars

\* C19: neither in memory nor in the state file does a label's count ever decrease or
\* a recorded pattern or rule disappear, new engines working on the same file included.
C19_TaxonomyNeverShrinks ==
    [][/\ \A l \in Labels : /\ (label_frequency'[l] >= label_frequency[l] \/ rulesOp' = "new_engine")
                             /\ config_file'.label_frequency[l] >= config_file.label_frequency[l]
       /\ \A agent \in RuleTypes :
             Len(config_file'.business_rules[agent]) >= Len(config_file.business_rules[agent])
       /\ \A c \in DOMAIN NoPatterns :
             Len(config_file'.historical_patterns[c]) >= Len(config_file.historical_patterns[c])
      ]_vars

\* C20: a new engine started on a persisted state file has the rule sets and the label
\* frequency counts the file holds.
C20_PersistThenLoadRoundTrip ==
    rulesOp = "new_engine" =>
        /\ business_rules = config_file.business_rules
        /\ label_frequency = config_file.label_frequency

\* ------------------------------------------------------------------ claims: pipeline

\* the table every analysis run diagnoses
Batch == <<row, ReferenceTrade>>

RECURSIVE SumOver(_, _)
SumOver(set, frequency) ==
    IF set = {} THEN 0
    ELSE LET l == CHOOSE x \in set : TRUE
         IN  frequency[l] + SumOver(set \ {l}, frequency)

Total(frequency) == SumOver(Labels, frequency)

\* C21: the state file reflects every update persisted to it: it holds at least the
\* counts and patterns of each live label generator (the analyzer's and the ML agent's),
\* and in total the two labels per row and the patterns that each analysis run so far
\* has contributed.
C21_NoPersistedUpdateIsLost ==
    config_file.exists =>
        /\ \A l \in Labels :
              /\ config_file.label_frequency[l] >= label_frequency[l]
              /\ config_file.label_frequency[l] >= ml_agent.label_frequency[l]
        /\ Total(config_file.label_frequency) >= 2 * Len(Batch) * runs
        /\ \A c \in DOMAIN NoPatterns :
              Len(config_file.historical_patterns[c]) >= runs * Len(DiscoverPatterns(Batch)[c])

\* ------------------------------------------------------------------ claims: label list

Position(label) == CHOOSE i \in 1..Len(LabelOrder) : LabelOrder[i] = label

StrictlyAscending(list) ==
    \A i \in 1..(Len(list) - 1) : Position(list[i]) < Position(list[i + 1])

RuleLabels == {r.label : r \in Range(business_rules.pv_rules)
                                \cup Range(business_rules.delta_rules)}

Discovered == PatternsOf(DiscoverPatternsIn(Batch, diagnosis # Unevaluated))

Historical == PatternsOf(historical_patterns)

Frequent == {l \in Labels : label_frequency[l] > 5}

FlagColumns == {"PV_Mismatch", "Delta_Mismatch", "Any_Mismatch"}
DiagnosisColumns == {"PV_Diagnosis", "Delta_Diagnosis"}

\* the row as it was before the analysis added its columns
Undiagnosed(r) == [PV_Diagnosis |-> NoColumn, Delta_Diagnosis |-> NoColumn] @@ r

\* C23: a pipeline run hands back either no table (no data, or an error), or a table
\* with one row per loaded row, each with the three mismatch flags computed from the
\* loaded values and the two diagnosis labels computed from the row with its flags.
C23_RunIsAllOrNothing ==
    /\ crew.result # "table" => crew.table = NoTable
    /\ crew.result = "table" =>
          /\ crew.table # NoTable
          /\ load.out.result.ok
          /\ Len(crew.table) = Len(load.out.result.rows)
          /\ \A i \in 1..Len(crew.table) :
                LET r == crew.table[i]
                IN  /\ FlagColumns \cup DiagnosisColumns \subseteq DOMAIN r
                    /\ r.TradeID = load.out.result.rows[i].TradeID
                    /\ r.PV_Mismatch =
                           Exceeds(Abs(Subtract(r.PV_new, r.PV_old)), crew.applied.pv_tolerance)
                    /\ r.Delta_Mismatch =
                           Exceeds(Abs(Subtract(r.Delta_new, r.Delta_old)),
                                   crew.applied.delta_tolerance)
                    /\ r.Any_Mismatch = (r.PV_Mismatch \/ r.Delta_Mismatch)
                    /\ r.PV_Diagnosis = Analyze("pv_rules", SeedRules.pv_rules, Undiagnosed(r))
                    /\ r.Delta_Diagnosis \in Labels

\* a run that returned a table of several trades, one of them flagged, another one
\* without an old price
C23_Witness ==
    /\ crew.result = "table"
    /\ Len(crew.table) > 1
    /\ \E i \in 1..Len(crew.table) : crew.table[i].PV_Mismatch
    /\ \E i \in 1..Len(crew.table) : crew.table[i].PV_old = NaN

\* C24: a run that was given tolerances at the entry point reconciles with a ReconAgent
\* that has these tolerances.
C24_SuppliedTolerancesAreApplied ==
    crew.supplied # NoTolerances => crew.applied = crew.supplied

Attempts(configured) == IF configured THEN 1 ELSE 0

\* C25: a run loads by the protocol of the requested source: files never asks the API,
\* api never reads the files, auto reads the files only when the API is not available
\* or gave no data, hybrid asks every configured source and has data when one of them
\* has.
C25_RunHonoursSourceMode ==
    crew.entry = "main" =>
        /\ crew.source = "files" => load.out.api_attempts = 0
        /\ crew.source = "api" => load.out.file_attempts = 0 /\ load.out.used # "files"
        /\ crew.source = "auto" =>
               (load.out.used = "files" =>
                   ~(load.out.api_df.ok /\ load.out.api_df.rows # <<>>))
        /\ crew.source = "hybrid" =>
               /\ load.out.api_attempts = Attempts(apiSource.configured)
               /\ load.out.file_attempts = Attempts(fileSource.configured)
               /\ (load.out.api_df.ok \/ load.out.file_df.ok) => load.out.result.ok

\* ------------------------------------------------------------------ claims: auto_fallback

\* C26: an auto-mode load on a loader built with auto_fallback=False, the API being
\* configured and its probe or its fetch failing, does not read the files.
C26_AutoFallbackOptionIsHonoured ==
    (/\ load.loader = "unified_no_fallback"
     /\ load.source = "auto"
     /\ apiSource.configured
     /\ (~load.probeOk \/ load.failed # "none"))
        => load.out.file_attempts = 0 /\ load.out.used # "files"

\* ------------------------------------------------------------------ claims: batch

\* C27: when an apply completes, every label of the table is the one that the rule
\* lists the apply began with give that row.
C27_BatchUsesRuleSnapshot ==
    (rulesOp = "apply" /\ batch.step = 0) =>
        /\ diagnosis.pv = Analyze("pv_rules", batch.rules.pv_rules,
                                  View(row, df_in.pv, df_in.delta))
        /\ diagnosis.ref_pv = Analyze("pv_rules", batch.rules.pv_rules,
                                      View(ReferenceTrade, df_in.ref_pv, df_in.ref_delta))
        /\ diagnosis.delta = Analyze("delta_rules", batch.rules.delta_rules,
                                     View(row, diagnosis.pv, df_in.delta))
        /\ diagnosis.ref_delta = Analyze("delta_rules", batch.rules.delta_rules,
                                         View(ReferenceTrade, diagnosis.ref_pv,
                                              df_in.ref_delta))

\* ------------------------------------------------------------------ claims: seed rules

\* C28: with the seed rule lists, a trade whose PV_Mismatch flag is set is not given
\* "Within tolerance" by the PV analysis, and a trade whose Delta_Mismatch flag is set
\* is not given it by the Delta analysis.
C28_FlaggedTradeIsNotWithinTolerance ==
    (rulesOp = "apply" /\ business_rules = SeedRules) =>
        /\ diagnosis.pv = WithinTolerance => ~row.PV_Mismatch
        /\ diagnosis.delta = WithinTolerance => ~row.Delta_Mismatch

\* ------------------------------------------------------------------ claims: conjuncts

\* C29: a trade gets the label of a rule whose condition is the cleared-CSA condition
\* extended by "and ProductType == 'Swap'" only when all three conjuncts hold for it.
C29_ConditionIsEvaluatedInFull ==
    rulesOp = "apply" =>
        \A agent \in RuleTypes :
            (/\ LabelOf(agent) = SwapLabel
             /\ \A r \in Range(business_rules[agent]) :
                   r.label = SwapLabel => r.condition = CondClearedSwap)
                => /\ row.CSA_Type = "Cleared"
                   /\ row.PV_Mismatch
                   /\ row.ProductType = "Swap"

\* ------------------------------------------------------------------ claims: counters

\* C30: between batches, the label frequency counters of an engine add up to twice the
\* number of rows its completed batches diagnosed: one PV label and one Delta label for
\* each of the two rows of every batch.
C30_CountersCountEveryDiagnosis ==
    batch.step = 0 => Total(label_frequency) = 2 * (Len(Batch) * runs)

====
